---- MODULE Spec2Model ----
(***************************************************************************)
(* Model of the retail sales ETL pipeline, src/etl/transform_sales.py      *)
(* (class SalesETL), together with the currency formatting of              *)
(* src/generate_sample_data.py.                                            *)
(*                                                                         *)
(* A DataFrame is a record [columns, rows]: columns is the sequence of     *)
(* column labels (labels may repeat, as in pandas), rows is a sequence of  *)
(* rows, each a sequence of cells aligned with columns.                    *)
(*                                                                         *)
(* A cell is a tagged tuple:                                               *)
(*   <<"null">>           NaN / None / NaT                                 *)
(*   <<"num", n>>         a number, n counted in units of 1/Scale          *)
(*   <<"str", s>>         a text value taken as a whole (ids, dates)       *)
(*   <<"txt", cs>>        a text value as its sequence of characters       *)
(*   <<"int", k>>         an integer (a count, a year, a month)            *)
(*   <<"date", y, m, d>>  a parsed timestamp                               *)
(*   <<"ym", y, m>>       a year_month period label "YYYY-MM"              *)
(* An attribute that may be None is a sequence of length 0 or 1.           *)
(***************************************************************************)
EXTENDS Integers, Sequences, FiniteSets, TLC

\* raw_data, cleaned_data, monthly_summary: the attributes of the SalesETL
\* object.  load_log, log_combined, log_removed: what the logger was told (the
\* per-file load results, the last "Combined data" and "Removed" counts).
\* raised: the exception the last call ended with; last_op: the last method
\* called; requested: every path handed to extract so far, in order.
\* arg, ret: the argument and the result of a function applied on its own.
VARIABLES raw_data, cleaned_data, monthly_summary, raised, last_op,
          load_log, log_combined, log_removed, requested, arg, ret

vars == <<raw_data, cleaned_data, monthly_summary, raised, last_op,
          load_log, log_combined, log_removed, requested, arg, ret>>

pipeline_vars == <<raw_data, cleaned_data, monthly_summary, raised, last_op,
                   load_log, log_combined, log_removed, requested>>

-----------------------------------------------------------------------------
(* Bounds of the model *)

\* most files the callers of Spec ever name
MaxTables == 2
\* most files the runs of SpecRuns ever name
MaxRunFiles == 3
\* most characters of a drawn revenue text
MaxLen == 4
\* most columns of a drawn table header
MaxCols == 3
\* most rows of a drawn cleaned table
MaxRows == 3

\* fractional digits a number of the model carries (fixed point)
FracDigits == 3

-----------------------------------------------------------------------------
(* Cells *)

NULL == <<"null">>
None == <<>>

Num(n) == <<"num", n>>
Str(s) == <<"str", s>>
Txt(cs) == <<"txt", cs>>

IsNull(c) == c[1] = "null"

-----------------------------------------------------------------------------
(* Text *)

Digits == {"0", "1", "2", "3", "4", "5", "6", "7", "8", "9"}

DigitVal(c) ==
    CASE c = "0" -> 0 [] c = "1" -> 1 [] c = "2" -> 2 [] c = "3" -> 3
      [] c = "4" -> 4 [] c = "5" -> 5 [] c = "6" -> 6 [] c = "7" -> 7
      [] c = "8" -> 8 [] c = "9" -> 9

DigitChar(d) ==
    CASE d = 0 -> "0" [] d = 1 -> "1" [] d = 2 -> "2" [] d = 3 -> "3"
      [] d = 4 -> "4" [] d = 5 -> "5" [] d = 6 -> "6" [] d = 7 -> "7"
      [] d = 8 -> "8" [] d = 9 -> "9"

RECURSIVE IntToChars(_)
\* decimal digits of a natural number
IntToChars(n) ==
    IF n < 10 THEN <<DigitChar(n)>>
    ELSE Append(IntToChars(n \div 10), DigitChar(n % 10))

RECURSIVE CharsToInt(_)
\* value of a sequence of decimal digits (the empty sequence is 0)
CharsToInt(cs) ==
    IF cs = <<>> THEN 0
    ELSE 10 * CharsToInt(SubSeq(cs, 1, Len(cs) - 1)) + DigitVal(cs[Len(cs)])

AllDigits(cs) == \A i \in 1..Len(cs) : cs[i] \in Digits

RECURSIVE Pow10(_)
Pow10(k) == IF k = 0 THEN 1 ELSE 10 * Pow10(k - 1)

\* numbers are counted in units of 1/Scale
Scale == Pow10(FracDigits)

\* the number ip.abc (abc thousandths), in units of 1/Scale
Dec(ip, thousandths) == ip * Scale + thousandths * (Scale \div 1000)

RECURSIVE StripTrailingZeros(_)
\* fraction digits of repr(float): trailing zeros dropped, one digit kept
StripTrailingZeros(cs) ==
    IF Len(cs) > 1 /\ cs[Len(cs)] = "0"
    THEN StripTrailingZeros(SubSeq(cs, 1, Len(cs) - 1))
    ELSE cs

RECURSIVE ZeroPad(_, _)
ZeroPad(cs, width) == IF Len(cs) >= width THEN cs ELSE ZeroPad(<<"0">> \o cs, width)

\* str(x) of a float x = n/Scale: "1234.5", "100.0", "-2.25"
StrFloat(n) ==
    LET a == IF n < 0 THEN -n ELSE n
        ip == IntToChars(a \div Scale)
        fp == StripTrailingZeros(ZeroPad(IntToChars(a % Scale), FracDigits))
    IN (IF n < 0 THEN <<"-">> ELSE <<>>) \o ip \o <<".">> \o fp

\* Series.str.replace('[$,]', '', regex=True): every "$" and "," is removed
StripCurrencyAll(cs) == SelectSeq(cs, LAMBDA c : c \notin {"$", ","})

\* a plausible slip: the character class holds "$" alone
StripCurrencyDollarOnly(cs) == SelectSeq(cs, LAMBDA c : c # "$")

StripCurrency(cs) == StripCurrencyAll(cs)

\* number of characters after the first "." of a text (0 when it has none)
FracLen(cs) ==
    LET dots == {i \in 1..Len(cs) : cs[i] = "."}
    IN IF dots = {} THEN 0
       ELSE Len(cs) - (CHOOSE i \in dots : \A j \in dots : i <= j)

\* pd.to_numeric(text, errors='coerce') of one text: an optional sign, digits
\* with at most one ".", at least one digit; anything else is NaN.  Texts of
\* the model carry at most FracDigits fractional digits.
ToNumeric(cs) ==
    LET signed == cs # <<>> /\ cs[1] \in {"-", "+"}
        body == IF signed THEN Tail(cs) ELSE cs
        dots == {i \in 1..Len(body) : body[i] = "."}
        dot == IF dots = {} THEN Len(body) + 1
               ELSE CHOOSE i \in dots : \A j \in dots : i <= j
        ip == SubSeq(body, 1, dot - 1)
        fp == SubSeq(body, dot + 1, Len(body))
        ok == /\ Cardinality(dots) <= 1
              /\ AllDigits(ip) /\ AllDigits(fp)
              /\ Len(ip) + Len(fp) >= 1
        mag == CharsToInt(ip) * Scale
               + CharsToInt(fp) * Pow10(FracDigits - Len(fp))
    IN IF ~ok THEN NULL
       ELSE Num(IF signed /\ cs[1] = "-" THEN -mag ELSE mag)

\* Series.astype(str) of one cell: NaN prints as "nan", a float as its repr
AsTypeStr(c) ==
    CASE c[1] = "null" -> <<"n", "a", "n">>
      [] c[1] = "num" -> StrFloat(c[2])
      [] c[1] = "txt" -> c[2]

\* lines 86-89 on one cell.  A "str" cell of the model is a text with letters
\* or dashes in it (an id, a date, a product name): not numeric.
CoerceRevenueCell(c) ==
    IF c[1] = "str" THEN NULL
    ELSE ToNumeric(StripCurrency(AsTypeStr(c)))

\* line 93 on one cell: pd.to_numeric(..., errors='coerce'), no text clean-up
CoerceQuantityCell(c) ==
    CASE c[1] = "null" -> NULL
      [] c[1] = "num" -> c
      [] c[1] = "txt" -> ToNumeric(c[2])
      [] c[1] = "str" -> NULL

-----------------------------------------------------------------------------
(* Rounding and currency formatting *)

\* DataFrame.round(2): decimals kept by the summary's total_revenue
RoundDecimals == 2
\* f"{x:,.2f}": decimals written by the sample generator
FormatDecimals == 2

\* n/Scale rounded half-to-even to k decimals, still in units of 1/Scale
RoundHalfEven(n, k) ==
    LET unit == Pow10(FracDigits - k)
        q == n \div unit
        r == n % unit
    IN IF 2 * r > unit \/ (2 * r = unit /\ q % 2 = 1)
       THEN (q + 1) * unit
       ELSE q * unit

\* a plausible slip: truncation instead of rounding
RoundDown(n, k) == (n \div Pow10(FracDigits - k)) * Pow10(FracDigits - k)

Round(n, k) == RoundHalfEven(n, k)

RECURSIVE GroupThousands(_)
\* the "," format option: digits of n in groups of three
GroupThousands(n) ==
    IF n < 1000 THEN IntToChars(n)
    ELSE GroupThousands(n \div 1000) \o <<",">> \o ZeroPad(IntToChars(n % 1000), 3)

\* f"${x:,.2f}" for x = n/Scale >= 0
FormatCurrency(n) ==
    LET r == Round(n, FormatDecimals)
        frac == (r % Scale) \div Pow10(FracDigits - FormatDecimals)
    IN <<"$">> \o GroupThousands(r \div Scale) \o <<".">>
       \o ZeroPad(IntToChars(frac), FormatDecimals)

-----------------------------------------------------------------------------
(* Column labels and the column mapping, lines 58-75 *)

\* str.lower().str.strip() of the labels of the model that are not already
\* lower-case and trimmed
CaseVariants ==
    ("Store_ID" :> "store_id") @@ ("Store" :> "store") @@ (" date " :> "date")
    @@ ("Date" :> "date") @@ ("Revenue" :> "revenue") @@ (" Total" :> "total")
    @@ ("QTY" :> "qty") @@ ("Product" :> "product") @@ ("Notes " :> "notes")

LowerStrip(label) ==
    IF label \in DOMAIN CaseVariants THEN CaseVariants[label] ELSE label

\* line 59
LowerStripAll(cols) == [i \in 1..Len(cols) |-> LowerStrip(cols[i])]

\* lines 62-68, in dict order
column_mapping ==
    << <<"store_id", {"store_id", "store", "location_id"}>>,
       <<"date", {"date", "sale_date", "transaction_date"}>>,
       <<"revenue", {"revenue", "sales", "amount", "total"}>>,
       <<"product", {"product", "product_name", "item"}>>,
       <<"quantity", {"quantity", "qty", "units"}>> >>

\* lines 72-75 for one standard name: the first label (by position) found in
\* possible_names is renamed; DataFrame.rename(columns={col: name}) renames
\* every column that carries the label col
RenameFirstMatch(cols, standard_name, possible_names) ==
    LET hits == {i \in 1..Len(cols) : cols[i] \in possible_names}
    IN IF hits = {} THEN cols
       ELSE LET first == CHOOSE i \in hits : \A j \in hits : i <= j
                col == cols[first]
            IN [j \in 1..Len(cols) |->
                    IF cols[j] = col THEN standard_name ELSE cols[j]]

RECURSIVE ApplyMappingFrom(_, _)
\* lines 71-75: the outer loop, from entry k of column_mapping on
ApplyMappingFrom(cols, k) ==
    IF k > Len(column_mapping) THEN cols
    ELSE ApplyMappingFrom(
            RenameFirstMatch(cols, column_mapping[k][1], column_mapping[k][2]), k + 1)

\* lines 59-75 on the labels of the combined frame
MapColumns(cols) == ApplyMappingFrom(LowerStripAll(cols), 1)

\* positions of the columns labelled name
Positions(cols, name) == {i \in 1..Len(cols) : cols[i] = name}

-----------------------------------------------------------------------------
(* DataFrames *)

Frame(cols, rows) == [columns |-> cols, rows |-> rows]

RECURSIVE UnionColumns(_, _)
\* labels of pd.concat's result (outer join, sort=False): first appearance
UnionColumns(tables, acc) ==
    IF tables = <<>> THEN acc
    ELSE LET new == SelectSeq(Head(tables).columns,
                              LAMBDA c : \A i \in 1..Len(acc) : acc[i] # c)
         IN UnionColumns(Tail(tables), acc \o new)

\* a row of table t laid out on the labels cols; a label t lacks gives NaN
Realign(t, row, cols) ==
    [j \in 1..Len(cols) |->
        LET at == Positions(t.columns, cols[j])
        IN IF at = {} THEN NULL ELSE row[CHOOSE i \in at : TRUE]]

RECURSIVE ConcatRows(_, _)
ConcatRows(tables, cols) ==
    IF tables = <<>> THEN <<>>
    ELSE LET t == Head(tables)
         IN [r \in 1..Len(t.rows) |-> Realign(t, t.rows[r], cols)]
            \o ConcatRows(Tail(tables), cols)

\* line 55: pd.concat(self.raw_data, ignore_index=True); the frames of
\* raw_data come from read_csv, so each has pairwise distinct labels
Concat(tables) ==
    LET cols == UnionColumns(tables, <<>>)
    IN Frame(cols, ConcatRows(tables, cols))

\* df[name] = values, one value per row: an existing column is overwritten,
\* a new one appended
AssignColumn(df, name, values) ==
    IF Positions(df.columns, name) = {}
    THEN Frame(Append(df.columns, name),
               [r \in 1..Len(df.rows) |-> Append(df.rows[r], values[r])])
    ELSE Frame(df.columns,
               [r \in 1..Len(df.rows) |->
                   [j \in 1..Len(df.columns) |->
                       IF df.columns[j] = name THEN values[r]
                       ELSE df.rows[r][j]]])

\* the cell of row under the (single) column labelled name
Cell(df, row, name) == row[CHOOSE i \in Positions(df.columns, name) : TRUE]

\* texts pd.to_datetime parses, with the timestamp each gives
DateTexts ==
    ("2024-01-15" :> <<"date", 2024, 1, 15>>)
    @@ ("2024-03-05" :> <<"date", 2024, 3, 5>>)
    @@ ("2024-03-10" :> <<"date", 2024, 3, 10>>)
    @@ ("2024-03-15" :> <<"date", 2024, 3, 15>>)
    @@ ("2024-04-01" :> <<"date", 2024, 4, 1>>)

\* line 82 on one cell: pd.to_datetime(..., errors='coerce')
ToDatetime(c) ==
    IF c[1] = "str" /\ c[2] \in DOMAIN DateTexts THEN DateTexts[c[2]]
    ELSE NULL

\* line 97 with `how` left at its default 'any': a row is kept when none of
\* its cells under the subset labels is null
DropNaAny(df, subset) ==
    Frame(df.columns,
          SelectSeq(df.rows,
                    LAMBDA row : \A j \in 1..Len(df.columns) :
                        df.columns[j] \in subset => ~IsNull(row[j])))

\* a plausible slip: quantity listed among the required fields
DropNaWithQuantity(df, subset) == DropNaAny(df, subset \cup {"quantity"})

DropNa(df, subset) == DropNaAny(df, subset)

\* line 97
RequiredColumns == {"date", "revenue", "store_id"}

-----------------------------------------------------------------------------
(* The files the model can read *)

CanonicalHeader == <<"store_id", "date", "revenue", "product", "quantity">>

\* pd.read_csv of each file of the model; None when read_csv raises
Files ==
    ("a.csv" :> <<Frame(CanonicalHeader,
        << <<Str("A"), Str("2024-03-05"), Num(Dec(100, 0)), Str("Laptop"), Num(Dec(2, 0))>> >>)>>)
    @@ ("b.csv" :> <<Frame(<<"store", "sale_date", "amount", "item", "qty">>,
        << <<Str("B"), Str("2024-03-10"), Num(Dec(200, 0)), Str("Mouse"), Num(Dec(1, 0))>> >>)>>)
    @@ ("c.csv" :> <<Frame(<<"location_id", "transaction_date", "total", "product_name", "units">>,
        << <<Str("C"), Str("2024-03-15"), Txt(<<"$", "3", "0", "0", ".", "0", "0">>),
             Str("Monitor"), Num(Dec(3, 0))>> >>)>>)
    @@ ("s.csv" :> <<Frame(CanonicalHeader,
        << <<Str("S1"), Str("2024-01-15"), Num(Dec(100, 0)), Str("Laptop"), Num(Dec(2, 0))>>,
           <<Str("S1"), Str("2024-01-15"), Num(Dec(50, 5)), Str("Mouse"), Num(Dec(1, 0))>>,
           <<Str("S2"), Str("2024-01-15"), Num(Dec(10, 0)), Str("Mouse"), Num(Dec(1, 0))>>,
           <<Str("S2"), Str("2024-04-01"), Txt(<<"$", "1", ",", "2", "3", "4", ".", "5", "0">>),
             Str("Laptop"), NULL>>,
           <<Str("S1"), Str("not a date"), Num(Dec(5, 0)), Str("Mouse"), Num(Dec(1, 0))>>,
           <<Str("S1"), Str("2024-04-01"), Txt(<<"n", "/", "a">>), Str("Mouse"), Num(Dec(1, 0))>>,
           <<NULL, Str("2024-04-01"), Num(Dec(7, 0)), Str("Mouse"), Num(Dec(1, 0))>> >>)>>)
    @@ ("upper.csv" :> <<Frame(<<"Store", " date ", "Revenue", "QTY", "Notes ">>,
        << <<Str("S2"), Str("2024-01-15"), Num(Dec(1, 250)), Txt(<<"4">>), Str("cash")>> >>)>>)
    @@ ("nodate.csv" :> <<Frame(<<"store_id", "revenue", "quantity">>,
        << <<Str("A"), Num(Dec(9, 0)), Num(Dec(1, 0))>> >>)>>)
    @@ ("header.csv" :> <<Frame(CanonicalHeader, <<>>)>>)
    @@ ("missing.csv" :> None)

FileNames == DOMAIN Files

-----------------------------------------------------------------------------
(* The SalesETL object and its methods, as functions of the object's state *)

NoError == <<>>
Error(method, exception) == <<method, exception>>

\* lines 18-22, with the log lines the model keeps
NewSalesETL ==
    [raw_data |-> <<>>, cleaned_data |-> None, monthly_summary |-> None,
     raised |-> NoError, load_log |-> <<>>, log_combined |-> None,
     log_removed |-> None]

\* lines 33-34: a single path is wrapped in a list
AsList(file_paths) ==
    IF file_paths[1] = "path" THEN <<file_paths[2]>> ELSE file_paths[2]

\* lines 37-42 for one file: a frame that loads is appended, a failure is
\* logged and swallowed
LoadOne(S, f) ==
    LET ok == Files[f] # None
    IN [S EXCEPT !.raw_data = IF ok THEN Append(@, Files[f][1]) ELSE @,
                 !.load_log = Append(@, <<f, ok>>)]

RECURSIVE LoadEach(_, _)
\* lines 36-42: the try is inside the loop, so the loop goes on after a failure
LoadEach(S, paths) ==
    IF paths = <<>> THEN S
    ELSE LoadEach(LoadOne(S, Head(paths)), Tail(paths))

RECURSIVE LoadUntilFailure(_, _)
\* a plausible slip: the try around the loop, the first failure ends it
LoadUntilFailure(S, paths) ==
    IF paths = <<>> THEN S
    ELSE IF Files[Head(paths)] = None THEN LoadOne(S, Head(paths))
    ELSE LoadUntilFailure(LoadOne(S, Head(paths)), Tail(paths))

LoadAll(S, paths) == LoadEach(S, paths)

\* lines 24-44
extract(S, file_paths) == LoadAll([S EXCEPT !.raised = NoError], AsList(file_paths))

\* a plausible slip: the frame edited in place is the one raw_data holds when
\* there is a single frame to combine
RawSharedWithCombined(raw, df) == IF Len(raw) = 1 THEN <<df>> ELSE raw

\* line 55 builds a new frame, and lines 59-93 edit that frame in place: the
\* frames held in raw_data are not touched
RawAfterTransform(raw, df) == raw

\* lines 80-93: the exception the coercions raise, if any.  df['date'] of a
\* frame with two 'date' columns is a DataFrame: pd.to_datetime refuses it
\* (ValueError), it has no .str (AttributeError), pd.to_numeric refuses it
\* (TypeError)
CoercionError(cols) ==
    IF Cardinality(Positions(cols, "date")) > 1 THEN "ValueError"
    ELSE IF Cardinality(Positions(cols, "revenue")) > 1 THEN "AttributeError"
    ELSE IF Cardinality(Positions(cols, "quantity")) > 1 THEN "TypeError"
    ELSE "none"

\* line 97: dropna(subset=...) raises KeyError for a label the frame lacks
DropNaError(cols) ==
    IF \E name \in RequiredColumns : Positions(cols, name) = {}
    THEN "KeyError" ELSE "none"

\* lines 82, 86-89, 93 on one cell of the column labelled name
CoerceCell(name, c) ==
    CASE name = "date" -> ToDatetime(c)
      [] name = "revenue" -> CoerceRevenueCell(c)
      [] name = "quantity" -> CoerceQuantityCell(c)
      [] OTHER -> c

\* lines 80-93: the date, revenue and quantity columns the frame has are
\* rewritten, the other columns are left as they are
Coerce(df) ==
    Frame(df.columns,
          [r \in 1..Len(df.rows) |->
              [j \in 1..Len(df.columns) |->
                  CoerceCell(df.columns[j], df.rows[r][j])]])

\* lines 102-104: .dt.year, .dt.month, .dt.to_period('M').astype(str)
AddDerived(df) ==
    LET dates == [r \in 1..Len(df.rows) |-> Cell(df, df.rows[r], "date")]
        withYear == AssignColumn(df, "year",
                        [r \in 1..Len(df.rows) |-> <<"int", dates[r][2]>>])
        withMonth == AssignColumn(withYear, "month",
                        [r \in 1..Len(df.rows) |-> <<"int", dates[r][3]>>])
    IN AssignColumn(withMonth, "year_month",
            [r \in 1..Len(df.rows) |-> <<"ym", dates[r][2], dates[r][3]>>])

\* lines 46-107
transform(S) ==
    IF S.raw_data = <<>> THEN [S EXCEPT !.raised = NoError]
    ELSE
      LET combined == Concat(S.raw_data)
          df == Frame(MapColumns(combined.columns), combined.rows)
          logged == [S EXCEPT !.log_combined = <<Len(combined.rows)>>]
      IN IF CoercionError(df.columns) # "none"
         THEN [logged EXCEPT !.raised = Error("transform", CoercionError(df.columns))]
         ELSE IF DropNaError(df.columns) # "none"
         THEN [logged EXCEPT !.raised = Error("transform", DropNaError(df.columns))]
         ELSE
           LET coerced == Coerce(df)
               kept == DropNa(coerced, RequiredColumns)
           IN [logged EXCEPT
                 !.raw_data = RawAfterTransform(@, coerced),
                 !.cleaned_data = <<AddDerived(kept)>>,
                 !.log_removed = <<Len(coerced.rows) - Len(kept.rows)>>,
                 !.raised = NoError]

-----------------------------------------------------------------------------
(* aggregate, lines 109-134 *)

\* the store ids of the model in the order Python compares strings
StoreOrder == <<"A", "B", "C", "North", "S1", "S2">>

StoreRank(c) == CHOOSE i \in 1..Len(StoreOrder) : StoreOrder[i] = c[2]

\* groupby sorts its keys: by store_id, then by year_month
KeyBefore(k1, k2) ==
    \/ StoreRank(k1[1]) < StoreRank(k2[1])
    \/ /\ k1[1] = k2[1]
       /\ \/ k1[2][2] < k2[2][2]
          \/ k1[2][2] = k2[2][2] /\ k1[2][3] < k2[2][3]

RECURSIVE SortKeys(_)
SortKeys(keys) ==
    IF keys = {} THEN <<>>
    ELSE LET first == CHOOSE k \in keys : \A o \in keys \ {k} : KeyBefore(k, o)
         IN <<first>> \o SortKeys(keys \ {first})

GroupKey(df, row) == <<Cell(df, row, "store_id"), Cell(df, row, "year_month")>>

\* groupby(['store_id', 'year_month']): dropna=True leaves out null keys
GroupKeys(df) ==
    {GroupKey(df, df.rows[r]) : r \in {q \in 1..Len(df.rows) :
        ~IsNull(Cell(df, df.rows[q], "store_id"))
        /\ ~IsNull(Cell(df, df.rows[q], "year_month"))}}

\* a group is the rows whose store_id and year_month both equal the key's
GroupRowsByKey(df, key) == SelectSeq(df.rows, LAMBDA row : GroupKey(df, row) = key)

\* a plausible slip: rows matched on store_id alone
GroupRowsByStore(df, key) ==
    SelectSeq(df.rows, LAMBDA row : Cell(df, row, "store_id") = key[1])

GroupRows(df, key) == GroupRowsByKey(df, key)

RECURSIVE SumColumn(_, _, _)
\* 'sum': the numbers of a column added up, nulls skipped
SumColumn(df, rows, name) ==
    IF rows = <<>> THEN 0
    ELSE LET c == Cell(df, Head(rows), name)
         IN (IF IsNull(c) THEN 0 ELSE c[2]) + SumColumn(df, Tail(rows), name)

\* 'count': the non-null cells of a column
CountColumn(df, rows, name) ==
    Cardinality({r \in 1..Len(rows) : ~IsNull(Cell(df, rows[r], name))})

\* lines 124-125 and 131
SummaryHeader ==
    <<"store_id", "year_month", "total_revenue", "total_quantity",
      "total_orders", "report_generated">>

\* lines 118-131 for one group
SummaryRow(df, key, now) ==
    LET rows == GroupRows(df, key)
    IN <<key[1], key[2],
         Num(Round(SumColumn(df, rows, "revenue"), RoundDecimals)),
         Num(SumColumn(df, rows, "quantity")),
         <<"int", CountColumn(df, rows, "date")>>,
         Str(now)>>

\* groupby of a frame with two 'store_id' columns raises ValueError (the
\* grouper is not 1-dimensional); agg raises KeyError for a missing column
AggregateError(cols) ==
    IF \E name \in {"store_id", "year_month"} :
            Cardinality(Positions(cols, name)) > 1
    THEN "ValueError"
    ELSE IF \E name \in {"store_id", "year_month", "revenue", "quantity", "date"} :
            Positions(cols, name) = {}
    THEN "KeyError" ELSE "none"

\* lines 118-131 build a new frame: cleaned_data is not touched
CleanedAfterAggregate(cleaned, monthly) == cleaned

\* lines 109-134
aggregate(S, now) ==
    IF S.cleaned_data = None THEN [S EXCEPT !.raised = NoError]
    ELSE
      LET df == S.cleaned_data[1]
      IN IF AggregateError(df.columns) # "none"
         THEN [S EXCEPT !.raised = Error("aggregate", AggregateError(df.columns))]
         ELSE
           LET keys == SortKeys(GroupKeys(df))
               monthly == Frame(SummaryHeader,
                   [g \in 1..Len(keys) |-> SummaryRow(df, keys[g], now)])
           IN [S EXCEPT
                 !.cleaned_data = CleanedAfterAggregate(@, monthly),
                 !.monthly_summary = <<monthly>>,
                 !.raised = NoError]

-----------------------------------------------------------------------------
(* export_reports, run_pipeline *)

\* lines 178-224: the files written are outside the model; what is kept is
\* whether the method raises.  None has no to_csv (line 189); the Overview
\* sheet reads cleaned_data['quantity'] (line 217) and calls .date() on the
\* minimum date, which is NaT for a frame without rows (line 219)
ExportError(S) ==
    IF S.monthly_summary = None \/ S.cleaned_data = None THEN "AttributeError"
    ELSE IF \E name \in {"revenue", "quantity", "store_id", "date"} :
            Positions(S.cleaned_data[1].columns, name) = {}
    THEN "KeyError"
    ELSE IF S.cleaned_data[1].rows = <<>> THEN "ValueError"
    ELSE "none"

export_reports(S) ==
    [S EXCEPT !.raised = IF ExportError(S) = "none" THEN NoError
                         ELSE Error("export_reports", ExportError(S))]

\* lines 226-244: an exception of one stage ends the run.  The object is
\* built without a connection string (src/run_etl.py line 3), so with
\* load_db set load_to_database only logs a warning and returns (lines
\* 138-140): the step changes nothing the model keeps
run_pipeline(S, file_paths, export, now) ==
    LET extracted == extract(S, file_paths)
        transformed == transform(extracted)
        aggregated == aggregate(transformed, now)
    IN IF transformed.raised # NoError THEN transformed
       ELSE IF aggregated.raised # NoError THEN aggregated
       ELSE IF export THEN export_reports(aggregated)
       ELSE aggregated

-----------------------------------------------------------------------------
(* The pipeline as a state machine: one SalesETL object and its callers *)

SeqsUpTo(S, n) == UNION {[1..k -> S] : k \in 0..n}

\* the file_paths a caller passes: one path, or a list of paths; at most
\* room files in all
PathArgs(room) ==
    {<<"path", f>> : f \in {g \in FileNames : room >= 1}}
    \cup {<<"list", fs>> : fs \in SeqsUpTo(FileNames, room)}

\* the values datetime.now().strftime(...) takes
Times == {"2026-01-01 09:00:00", "2026-01-01 09:00:01"}

Self ==
    [raw_data |-> raw_data, cleaned_data |-> cleaned_data,
     monthly_summary |-> monthly_summary, raised |-> raised,
     load_log |-> load_log, log_combined |-> log_combined,
     log_removed |-> log_removed]

Becomes(T, op) == \E S \in {T} :
    /\ raw_data' = S.raw_data
    /\ cleaned_data' = S.cleaned_data
    /\ monthly_summary' = S.monthly_summary
    /\ raised' = S.raised
    /\ load_log' = S.load_log
    /\ log_combined' = S.log_combined
    /\ log_removed' = S.log_removed
    /\ last_op' = op
    /\ UNCHANGED <<arg, ret>>

Requests(file_paths) == requested' = requested \o AsList(file_paths)

Init ==
    /\ raw_data = NewSalesETL.raw_data
    /\ cleaned_data = NewSalesETL.cleaned_data
    /\ monthly_summary = NewSalesETL.monthly_summary
    /\ raised = NewSalesETL.raised
    /\ load_log = NewSalesETL.load_log
    /\ log_combined = NewSalesETL.log_combined
    /\ log_removed = NewSalesETL.log_removed
    /\ last_op = "__init__"
    /\ requested = <<>>
    /\ arg = None
    /\ ret = None

\* the callers stop naming files once MaxTables of them have been named
Room == MaxTables - Len(requested)

Extract(file_paths) ==
    /\ Becomes(extract(Self, file_paths), "extract")
    /\ Requests(file_paths)

Transform ==
    /\ Becomes(transform(Self), "transform")
    /\ UNCHANGED requested

Aggregate(now) ==
    /\ Becomes(aggregate(Self, now), "aggregate")
    /\ UNCHANGED requested

ExportReports ==
    /\ Becomes(export_reports(Self), "export_reports")
    /\ UNCHANGED requested

RunPipeline(file_paths, export, now) ==
    /\ Becomes(run_pipeline(Self, file_paths, export, now), "run_pipeline")
    /\ Requests(file_paths)

Next ==
    \/ \E file_paths \in PathArgs(Room) : Extract(file_paths)
    \/ Transform
    \/ \E now \in Times : Aggregate(now)
    \/ ExportReports
    \/ \E file_paths \in PathArgs(Room), export \in BOOLEAN, now \in Times :
          RunPipeline(file_paths, export, now)

Spec == Init /\ [][Next]_vars

-----------------------------------------------------------------------------
(* The callers of src/run_etl.py: whole runs only, each over a list of files *)

RunArgs(room) == {<<"list", fs>> : fs \in SeqsUpTo(FileNames, room)}

Run(file_paths, export, now) ==
    /\ Becomes(run_pipeline(Self, file_paths, export, now), "run_pipeline")
    /\ Requests(file_paths)

NextRuns ==
    \E file_paths \in RunArgs(MaxRunFiles - Len(requested)),
       export \in BOOLEAN, now \in Times :
        Run(file_paths, export, now)

SpecRuns == Init /\ [][NextRuns]_vars

-----------------------------------------------------------------------------
(* Functions applied on their own: the argument is drawn, the function is
   applied once, the object stays as constructed *)

FreshObject ==
    /\ raw_data = NewSalesETL.raw_data
    /\ cleaned_data = NewSalesETL.cleaned_data
    /\ monthly_summary = NewSalesETL.monthly_summary
    /\ raised = NewSalesETL.raised
    /\ load_log = NewSalesETL.load_log
    /\ log_combined = NewSalesETL.log_combined
    /\ log_removed = NewSalesETL.log_removed
    /\ last_op = "__init__"
    /\ requested = <<>>

Returns(value) ==
    /\ ret = None
    /\ ret' = <<value>>
    /\ UNCHANGED <<arg, pipeline_vars>>

(* The revenue coercion, lines 84-89 *)

RevenueAlphabet == {"$", ",", ".", "-", "0", "1", "x"}

\* amounts in units of 1/Scale
Amounts ==
    {Dec(0, 0), Dec(0, 500), Dec(7, 50), Dec(100, 0), Dec(999, 990),
     Dec(1000, 0), Dec(1234, 500), Dec(12345, 670), Dec(50, 5)}

\* the amounts the sample generator writes: rounded to cents (line 28)
CentAmounts == {v \in Amounts : v % Pow10(FracDigits - FormatDecimals) = 0}

RevenueInputs ==
    {NULL}
    \cup {Num(v) : v \in Amounts}
    \cup {Txt(FormatCurrency(v)) : v \in CentAmounts}
    \cup {Txt(cs) : cs \in {t \in SeqsUpTo(RevenueAlphabet, MaxLen) :
                                FracLen(t) <= FracDigits}}

InitRevenue == FreshObject /\ ret = None /\ arg \in RevenueInputs

CoerceRevenue == Returns(CoerceRevenueCell(arg))

SpecRevenue == InitRevenue /\ [][CoerceRevenue]_vars

(* The column mapping, lines 58-75 *)

Labels ==
    {"store_id", "store", "Store", "location_id", "date", " date ",
     "sale_date", "revenue", "total", "qty", "Notes "}

\* the labels of a combined frame: pairwise distinct as written
Headers ==
    {h \in SeqsUpTo(Labels, MaxCols) :
        h # <<>> /\ \A i, j \in 1..Len(h) : i # j => h[i] # h[j]}

InitMapping == FreshObject /\ ret = None /\ arg \in Headers

ApplyMapping == Returns(MapColumns(arg))

SpecMapping == InitMapping /\ [][ApplyMapping]_vars

(* aggregate, lines 109-134, on a drawn cleaned table *)

CleanedHeader ==
    <<"store_id", "date", "revenue", "quantity", "year", "month", "year_month">>

CleanedRow(store, date, revenue, quantity) ==
    <<Str(store), date, Num(revenue), quantity,
      <<"int", date[2]>>, <<"int", date[3]>>, <<"ym", date[2], date[3]>> >>

\* rows transform can leave: date, revenue, store_id set, quantity maybe null
CleanedRows ==
    {CleanedRow(store, date, revenue, quantity) :
        store \in {"S1", "S2"},
        date \in {DateTexts["2024-01-15"], DateTexts["2024-04-01"]},
        revenue \in {Dec(50, 5), Dec(1, 257)},
        quantity \in {NULL, Num(Dec(1, 0))}}
    \cup {CleanedRow("S1", DateTexts["2024-01-15"], Dec(100, 0), Num(Dec(2, 0))),
          CleanedRow("S2", DateTexts["2024-01-15"], Dec(10, 0), Num(Dec(1, 0)))}

\* the frame without its column labelled name
WithoutColumn(df, name) ==
    LET keep == {j \in 1..Len(df.columns) : df.columns[j] # name}
        Pick(row) == [k \in 1..Cardinality(keep) |->
                        row[CHOOSE j \in keep :
                                Cardinality({i \in keep : i < j}) = k - 1]]
    IN Frame(Pick(df.columns), [r \in 1..Len(df.rows) |-> Pick(df.rows[r])])

\* the frame with one more column labelled store_id in front
WithSecondStore(df) ==
    Frame(<<"store_id">> \o df.columns,
          [r \in 1..Len(df.rows) |-> <<Str("North")>> \o df.rows[r]])

\* cleaned tables: with a quantity column; without one (no source had it);
\* with two store_id columns (a source had a synonym ahead of store_id)
CleanedTables ==
    {Frame(CleanedHeader, rows) : rows \in SeqsUpTo(CleanedRows, MaxRows)}
    \cup {WithoutColumn(Frame(CleanedHeader, rows), "quantity") :
            rows \in SeqsUpTo(CleanedRows, 1)}
    \cup {WithSecondStore(Frame(CleanedHeader, rows)) :
            rows \in SeqsUpTo(CleanedRows, 1)}

InitAggregate == FreshObject /\ ret = None /\ arg \in CleanedTables

ApplyAggregate ==
    \E now \in Times :
        Returns(aggregate([NewSalesETL EXCEPT !.cleaned_data = <<arg>>], now))

SpecAggregate == InitAggregate /\ [][ApplyAggregate]_vars

-----------------------------------------------------------------------------
(* Properties *)

\* transform ran to its end in the last call, on the frames raw_data holds
TransformCompleted ==
    /\ raw_data # <<>>
    /\ \/ last_op = "transform" /\ raised = NoError
       \/ last_op = "run_pipeline" /\ (raised = NoError \/ raised[1] # "transform")

\* aggregate ran to its end in the last run
RunAggregated ==
    /\ last_op = "run_pipeline"
    /\ raised = NoError \/ raised[1] = "export_reports"

\* the labels the combined frame of raw_data carries after lines 59-75
MappedColumns == MapColumns(Concat(raw_data).columns)

\* the combined frame of raw_data after the coercions of lines 80-93
CombinedCoerced ==
    LET combined == Concat(raw_data)
    IN Coerce(Frame(MapColumns(combined.columns), combined.rows))

Sum(f) ==
    LET RECURSIVE Over(_)
        Over(I) == IF I = {} THEN 0
                   ELSE LET i == CHOOSE x \in I : TRUE IN f[i] + Over(I \ {i})
    IN Over(DOMAIN f)

IsPrefix(s, t) == Len(s) <= Len(t) /\ SubSeq(t, 1, Len(s)) = s

Column(df, name) == CHOOSE j \in 1..Len(df.columns) : df.columns[j] = name

\* C1: a run over the three one-row tables of stores A, B and C (canonical
\* labels, first synonyms, second synonyms with a "$" revenue) ends with a
\* summary of exactly three rows, one per store, each with total_orders 1
\* and total_revenue the number the row's revenue stands for
C1_EndToEndThreeStores ==
    ( /\ last_op = "run_pipeline"
      /\ Len(raw_data) = 3
      /\ {raw_data[i] : i \in 1..3}
            = {Files["a.csv"][1], Files["b.csv"][1], Files["c.csv"][1]} )
    => /\ RunAggregated
       /\ monthly_summary # None
       /\ Len(monthly_summary[1].rows) = 3
       /\ \A e \in {<<"A", 100>>, <<"B", 200>>, <<"C", 300>>} :
             \E g \in 1..3 :
                LET row == monthly_summary[1].rows[g]
                IN /\ row[1] = Str(e[1])
                   /\ row[3] = Num(Dec(e[2], 0))
                   /\ row[5] = <<"int", 1>>

\* C2: when no column of the loaded tables maps to one of date, revenue,
\* store_id, the run does not raise in transform: it leaves a cleaned table
\* without rows and goes on through aggregate
C2_MissingColumnIsNoError ==
    ( /\ last_op = "run_pipeline"
      /\ raw_data # <<>>
      /\ \E name \in RequiredColumns : Positions(MappedColumns, name) = {} )
    => /\ RunAggregated
       /\ cleaned_data # None
       /\ cleaned_data[1].rows = <<>>
       /\ monthly_summary # None

\* C3: a run that loads no table leaves an empty cleaned table and an empty
\* monthly summary, and raises nowhere, export_reports included
C3_EmptyInputSafe ==
    (last_op = "run_pipeline" /\ raw_data = <<>>)
    => /\ raised = NoError
       /\ cleaned_data # None
       /\ cleaned_data[1].rows = <<>>
       /\ monthly_summary # None
       /\ monthly_summary[1].rows = <<>>

\* the cells of row under date, revenue and store_id are all set
RequiredSet(cols, row) ==
    \A name \in RequiredColumns :
        /\ Positions(cols, name) # {}
        /\ \A j \in Positions(cols, name) : row[j][1] # "null"

\* C4: every row of cleaned_data has date, revenue and store_id set; after
\* transform the cleaned rows are exactly the combined rows whose three
\* fields are set after coercion, a null quantity notwithstanding, and the
\* logged removed count is the combined row count less the cleaned row count
C4_RequiredFieldFiltering ==
    /\ cleaned_data # None =>
          \A r \in 1..Len(cleaned_data[1].rows) :
              RequiredSet(cleaned_data[1].columns, cleaned_data[1].rows[r])
    /\ TransformCompleted =>
          LET before == CombinedCoerced
              after == cleaned_data[1]
              width == Len(before.columns)
          IN /\ [r \in 1..Len(after.rows) |-> SubSeq(after.rows[r], 1, width)]
                  = SelectSeq(before.rows,
                              LAMBDA row : RequiredSet(before.columns, row))
             /\ log_combined = <<Len(before.rows)>>
             /\ log_removed = <<Len(before.rows) - Len(after.rows)>>

\* C4 happens: transform dropped rows and kept one whose quantity is null
C4_Witness ==
    /\ TransformCompleted
    /\ log_removed \notin {None, <<0>>}
    /\ \E r \in 1..Len(cleaned_data[1].rows) :
          /\ Positions(cleaned_data[1].columns, "quantity") # {}
          /\ Cell(cleaned_data[1], cleaned_data[1].rows[r], "quantity") = NULL

\* C5: when exactly two labels of a table fold to names of one canonical
\* field's synonym set, after the mapping exactly one column carries the
\* canonical name, it is the first of the two, and the second keeps its name
C5_FirstMatchWins ==
    ret # None =>
        \A k \in 1..Len(column_mapping) :
            LET hits == {i \in 1..Len(arg) : LowerStrip(arg[i]) \in column_mapping[k][2]}
            IN Cardinality(hits) = 2 =>
                 LET first == CHOOSE i \in hits : \A j \in hits : i <= j
                     second == CHOOSE i \in hits : i # first
                 IN /\ Positions(ret[1], column_mapping[k][1]) = {first}
                    /\ ret[1][second] = LowerStrip(arg[second])

\* C6: for a cleaned table with a quantity column, every summary row has
\* total_revenue = the group's revenue sum rounded to 2 decimals (either way
\* at a tie), total_quantity = the group's quantity sum with null as 0,
\* total_orders = the number of cleaned rows of the group
C6_AggregationCorrect ==
    ( /\ ret # None
      /\ Positions(arg.columns, "quantity") # {}
      /\ ret[1].monthly_summary # None ) =>
           LET monthly == ret[1].monthly_summary[1]
               cent == Pow10(FracDigits - 2)
           IN \A g \in 1..Len(monthly.rows) :
                LET row == monthly.rows[g]
                    members == {r \in 1..Len(arg.rows) :
                        /\ arg.rows[r][Column(arg, "store_id")] = row[1]
                        /\ arg.rows[r][Column(arg, "year_month")] = row[2]}
                    revenue == Sum([r \in members |->
                        arg.rows[r][Column(arg, "revenue")][2]])
                    quantity == Sum([r \in members |->
                        LET q == arg.rows[r][Column(arg, "quantity")]
                        IN IF q = NULL THEN 0 ELSE q[2]])
                IN /\ row[3][1] = "num"
                   /\ row[3][2] % cent = 0
                   /\ 2 * (row[3][2] - revenue) <= cent
                   /\ 2 * (revenue - row[3][2]) <= cent
                   /\ row[4] = Num(quantity)
                   /\ row[5] = <<"int", Cardinality(members)>>

\* C6 happens: the rows (S1, 2024-01, 100.00, 2), (S1, 2024-01, 50.005, 1),
\* (S2, 2024-01, 10, 1) were aggregated
C6_Witness ==
    /\ ret # None
    /\ arg.rows =
         <<CleanedRow("S1", DateTexts["2024-01-15"], Dec(100, 0), Num(Dec(2, 0))),
           CleanedRow("S1", DateTexts["2024-01-15"], Dec(50, 5), Num(Dec(1, 0))),
           CleanedRow("S2", DateTexts["2024-01-15"], Dec(10, 0), Num(Dec(1, 0)))>>
    /\ Positions(arg.columns, "quantity") # {}
    /\ LET rows == ret[1].monthly_summary[1].rows
       IN /\ Len(rows) = 2
          /\ rows[1][1] = Str("S1")
          /\ rows[1][3] \in {Num(Dec(150, 0)), Num(Dec(150, 10))}
          /\ rows[1][4] = Num(Dec(3, 0))
          /\ rows[1][5] = <<"int", 2>>
          /\ rows[2][1] = Str("S2")
          /\ rows[2][3] = Num(Dec(10, 0))
          /\ rows[2][4] = Num(Dec(1, 0))
          /\ rows[2][5] = <<"int", 1>>

\* C7: in every summary aggregate produces no two rows share (store_id,
\* year_month), every pair of the cleaned table has a row, every cleaned row
\* is counted in exactly one summary row, the total_orders add up to the
\* number of cleaned rows
C7_GroupingPartition ==
    (ret # None /\ ret[1].monthly_summary # None) =>
        LET monthly == ret[1].monthly_summary[1]
            Key(r) == <<arg.rows[r][Column(arg, "store_id")],
                        arg.rows[r][Column(arg, "year_month")]>>
        IN /\ \A g, h \in 1..Len(monthly.rows) :
                 g # h => <<monthly.rows[g][1], monthly.rows[g][2]>>
                            # <<monthly.rows[h][1], monthly.rows[h][2]>>
           /\ \A r \in 1..Len(arg.rows) :
                 Cardinality({g \in 1..Len(monthly.rows) :
                    <<monthly.rows[g][1], monthly.rows[g][2]>> = Key(r)}) = 1
           /\ \A g \in 1..Len(monthly.rows) :
                 \E r \in 1..Len(arg.rows) :
                    <<monthly.rows[g][1], monthly.rows[g][2]>> = Key(r)
           /\ Sum([g \in 1..Len(monthly.rows) |-> monthly.rows[g][5][2]])
                = Len(arg.rows)

\* C7 happens: three cleaned rows, two of one store in different months
C7_Witness ==
    /\ ret # None
    /\ ret[1].monthly_summary # None
    /\ Len(arg.rows) = 3
    /\ Len(ret[1].monthly_summary[1].rows) = 2
    /\ arg.rows[1][1] = arg.rows[2][1]
    /\ arg.rows[1][1] = arg.rows[3][1]
    /\ arg.rows[1][7] # arg.rows[2][7]

\* C8: the text of an amount written with "$" and "," separators coerces
\* to the number the plain amount coerces to, the amount itself; a missing
\* value, or a text that is no number once "$" and "," are removed, gives
\* null
C8_CurrencyStripping ==
    ret # None =>
        /\ \A v \in CentAmounts :
              arg = Txt(FormatCurrency(v)) => ret[1] = Num(v)
        /\ \A v \in Amounts : arg = Num(v) => ret[1] = Num(v)
        /\ arg = NULL => ret[1] = NULL
        /\ arg[1] = "txt" =>
              LET rest == SelectSeq(arg[2], LAMBDA c : c # "$" /\ c # ",")
                  NotANumber ==
                    \/ \E i \in 1..Len(rest) : rest[i] \notin Digits \cup {".", "-", "+"}
                    \/ \A i \in 1..Len(rest) : rest[i] \notin Digits
                    \/ Cardinality({i \in 1..Len(rest) : rest[i] = "."}) > 1
                    \/ \E i \in 2..Len(rest) : rest[i] \in {"-", "+"}
              IN NotANumber <=> ret[1] = NULL

\* C8 happens: "$1,234.50" was coerced to 1234.50
C8_Witness ==
    /\ ret = <<Num(Dec(1234, 500))>>
    /\ arg = Txt(<<"$", "1", ",", "2", "3", "4", ".", "5", "0">>)

\* C9: transform leaves raw_data and monthly_summary as they were, aggregate
\* leaves raw_data and cleaned_data as they were
C9_ForwardOnly ==
    [][ /\ last_op' = "transform" =>
              raw_data' = raw_data /\ monthly_summary' = monthly_summary
        /\ last_op' = "aggregate" =>
              raw_data' = raw_data /\ cleaned_data' = cleaned_data ]_vars

\* C9 happens: transform, then aggregate, have written their outputs
C9_Witness ==
    /\ last_op = "aggregate"
    /\ raw_data # <<>>
    /\ cleaned_data # None
    /\ monthly_summary # None
    /\ monthly_summary[1].rows # <<>>

\* the frames of the files of paths that load, in the order of paths
LoadableTables(paths) ==
    LET loadable == SelectSeq(paths, LAMBDA f : Files[f] # None)
    IN [i \in 1..Len(loadable) |-> Files[loadable[i]][1]]

\* C10: raw_data is the frames of the requested files that loaded, in
\* request order; extract never raises; no step takes a frame out of
\* raw_data; a transform that ran combined the rows of every frame held
C10_RawDataAccumulates ==
    [][ /\ raw_data' = LoadableTables(requested')
        /\ IsPrefix(raw_data, raw_data')
        /\ last_op' = "extract" => raised' = NoError
        /\ TransformCompleted' =>
              log_combined' = <<Sum([i \in 1..Len(raw_data') |->
                                        Len(raw_data'[i].rows)])>> ]_vars

\* C10 happens: a file failed to load, a later one loaded and was transformed
C10_Witness ==
    /\ TransformCompleted
    /\ Len(requested) = 2
    /\ Files[requested[1]] = None
    /\ Len(raw_data) = 1

====
